---- MODULE Spec2Model ----
(***************************************************************************)
(* Model of the LangGraph ETL workflow orchestrator                        *)
(* (src/langgraph_etl_workflow.py): the seven-stage pipeline over one      *)
(* workflow record per run, the files the runs write, and the record-count *)
(* verdict.                                                                *)
(*                                                                         *)
(* A workflow record is a Python dict: it is modelled as a function whose  *)
(* DOMAIN is the set of keys present, so that an absent key, a key holding *)
(* None and a key holding a value stay three different things.             *)
(***************************************************************************)
EXTENDS Integers, Sequences, FiniteSets, TLC

\* ------------------------------------------------------------------ bounds
NumRuns == 2            \* runs of the concurrent specification
MaxClock == 2           \* the clock stops ticking here
TicksPerSecond == 2     \* clock ticks per wall-clock second
MaxCount == 2           \* largest row count in outputs and query results
MaxOut == 1             \* most markers in one captured output
MaxVerdictCount == 25   \* largest count the verdict is enumerated on
MaxRows == 2            \* rows of the small frames
MaxCols == 2            \* most columns of a frame
Slack == 2              \* how far from 0 and from the row count a count is drawn
MaxDateRows == 3        \* rows of the frames searched for date columns
MaxDistinct == 2        \* distinct values of a column that are told apart
MaxLines == 3           \* lines of a script given to the injection
MaxRepairLines == 3     \* lines of a script given to the syntax repair
MaxIndent == 2          \* deepest indentation of such a line, in steps
MaxMarkers == 2         \* markers of an output given to the analysis alone
MaxResponseLines == 3   \* lines of a response given to the cleaning

\* --------------------------------------------------------- program constants
MockInserted == 100     \* the mock value of validate_ingestion_node
KeyUniquePercent == 95  \* unique_count >= n * 0.95
KeyNullPercent == 5     \* null_count <= n * 0.05
DateHighPercent == 80   \* valid_dates >= len(df) * 0.8
DateMediumPercent == 50 \* valid_dates >= len(df) * 0.5
AcceptPercent == 5      \* variance_percent <= 5
WarnPercent == 15       \* variance_percent <= 15

None == "None"

RunIds == 1..NumRuns

\* ----------------------------------------------------------- dict operations
\* state.get(k): the value, or None when the key is absent
Get(st, k) == IF k \in DOMAIN st THEN st[k] ELSE None

\* state[k] = v
Put(st, k, v) == (k :> v) @@ st

\* Python truthiness of state.get(k) for the string-valued keys
Truthy(st, k) == k \in DOMAIN st /\ st[k] # None

Max(a, b) == IF a >= b THEN a ELSE b

Abs(x) == IF x >= 0 THEN x ELSE 0 - x

\* ------------------------------------------------------ record-count verdict
\* the verdict with the destination and processed counts exchanged
VerdictExchanged(status, message, source_count, snowflake_count, processed_count) ==
    [status |-> status, message |-> message, source_count |-> source_count,
     snowflake_count |-> processed_count, processed_count |-> snowflake_count]

Verdict(status, message, source_count, snowflake_count, processed_count) ==
    [status |-> status, message |-> message, source_count |-> source_count,
     snowflake_count |-> snowflake_count, processed_count |-> processed_count]

\* the thresholds read as strict bounds
VarianceBelow(source_count, snowflake_count, p) ==
    100 * Abs(source_count - snowflake_count) < p * source_count

\* variance_percent <= p, for abs(source - snowflake) / source * 100.  The
\* float expression and the exact comparison agree on both thresholds for
\* every source count up to 3000.
VarianceWithin(source_count, snowflake_count, p) ==
    100 * Abs(source_count - snowflake_count) <= p * source_count

\* the verdict looks at the destination count before the source count
VerdictDestinationFirst(source_count, snowflake_count, processed_count) ==
    IF snowflake_count = 0 THEN
        Verdict("failed", "No records found in Snowflake table",
                source_count, snowflake_count, processed_count)
    ELSE IF source_count = 0 THEN
        Verdict("warning", "Could not determine source record count",
                source_count, snowflake_count, processed_count)
    ELSE Verdict("success", "Perfect match", source_count, snowflake_count, processed_count)

_validate_record_counts(source_count, snowflake_count, processed_count) ==
    IF source_count = 0 THEN
        Verdict("warning", "Could not determine source record count",
                source_count, snowflake_count, processed_count)
    ELSE IF snowflake_count = 0 THEN
        Verdict("failed", "No records found in Snowflake table",
                source_count, snowflake_count, processed_count)
    ELSE IF source_count = snowflake_count THEN
        Verdict("success", "Perfect match",
                source_count, snowflake_count, processed_count)
    ELSE IF processed_count > 0 /\ processed_count = snowflake_count THEN
        Verdict("success", "Successful ETL",
                source_count, snowflake_count, processed_count)
    ELSE IF source_count > 0 THEN
        IF VarianceWithin(source_count, snowflake_count, AcceptPercent) THEN
            Verdict("success", "Acceptable variance",
                    source_count, snowflake_count, processed_count)
        ELSE IF VarianceWithin(source_count, snowflake_count, WarnPercent) THEN
            Verdict("warning", "Record count mismatch",
                    source_count, snowflake_count, processed_count)
        ELSE
            Verdict("failed", "Significant record loss",
                    source_count, snowflake_count, processed_count)
    ELSE
        Verdict("warning", "Could not validate record counts - insufficient data",
                source_count, snowflake_count, processed_count)

\* ------------------------------------------------------- captured output
\* The captured output is a sequence of markers <<kind, n>>, one per log line
\* the validation looks for:
\*   loaded          "Successfully loaded n rows from ..."
\*   remaining       "Data transformation completed. n rows remaining"
\*   tick_inserted   "(check mark) Successfully inserted n rows"
\*   inserted        "Successfully inserted n rows" (no check mark)
\*   successful_rows "(check mark) Successful rows: n"
\*   etl_completed   "(check mark) ETL process completed successfully!"
\*   summary         "Insertion Summary:"
\*   success_rate    "Success rate:"
\*   load_failed     "Failed to load data to Snowflake"
\*   too_long        "String ... is too long and would be truncated"
\*   binding         "Binding data in type"
\*   config_sig      "your_account" or "404 Not Found"
CountKinds == {"loaded", "remaining", "tick_inserted", "inserted", "successful_rows"}

FlagKinds == {"etl_completed", "summary", "success_rate", "load_failed",
              "too_long", "binding", "config_sig"}

Markers == (CountKinds \X (0..MaxCount)) \cup (FlagKinds \X {0})

RECURSIVE SeqsUpTo(_, _)
SeqsUpTo(S, n) ==
    IF n = 0 THEN {<<>>}
    ELSE LET shorter == SeqsUpTo(S, n - 1)
         IN  shorter \cup {Append(q, x) : q \in shorter, x \in S}

\* every output of at most MaxOut markers
Outputs == SeqsUpTo(Markers, MaxOut)

\* one output for every way validate_ingestion_node reads an output
SampleOutputs ==
    {<<>>,
     <<<<"loaded", 1>>>>,
     <<<<"load_failed", 0>>>>,
     <<<<"loaded", 2>>, <<"load_failed", 0>>, <<"config_sig", 0>>>>,
     <<<<"loaded", 2>>, <<"remaining", 1>>, <<"tick_inserted", 1>>>>,
     <<<<"tick_inserted", 1>>>>,
     <<<<"inserted", 1>>, <<"etl_completed", 0>>>>,
     <<<<"summary", 0>>, <<"successful_rows", 1>>>>,
     <<<<"success_rate", 0>>>>}

\* pattern in execution_output, for a pattern that the markers of `kinds` contain
Contains(out, kinds) == \E i \in 1..Len(out) : out[i][1] \in kinds

\* re.findall(pattern, execution_output) for a pattern the markers of `kinds` match
RECURSIVE FindAll(_, _)
FindAll(out, kinds) ==
    IF out = <<>> THEN <<>>
    ELSE IF Head(out)[1] \in kinds
         THEN <<Head(out)[2]>> \o FindAll(Tail(out), kinds)
         ELSE FindAll(Tail(out), kinds)

First(q) == q[1]

Last(q) == q[Len(q)]

\* rows_processed of validate_ingestion_node
RowsProcessed(out) ==
    LET loaded == FindAll(out, {"loaded"})
        remaining == FindAll(out, {"remaining"})
        fromLoaded == IF loaded # <<>> THEN First(loaded) ELSE 0
    IN  IF remaining # <<>> THEN Max(fromLoaded, First(remaining)) ELSE fromLoaded

\* snowflake_loading_successful of validate_ingestion_node
LoadingSuccessful(out) ==
    Contains(out, {"tick_inserted", "etl_completed", "summary", "success_rate"})

\* inserted_rows of validate_ingestion_node
InsertedRows(out) ==
    LET ticked == FindAll(out, {"tick_inserted"})
        rows == FindAll(out, {"successful_rows"})
    IN  IF ticked # <<>> THEN Last(ticked)
        ELSE IF Contains(out, {"summary"}) /\ rows # <<>> THEN First(rows)
        ELSE 0

\* re.findall(r'Successfully inserted (\d+) rows', ...): the pattern without the
\* check mark also matches the lines that carry it
LegacyMatches(out) == FindAll(out, {"tick_inserted", "inserted"})

\* snowflake_error of the "Failed to load data to Snowflake" branch
LoadFailureError(out) ==
    IF Contains(out, {"too_long"}) THEN "Column size too small - increase VARCHAR length"
    ELSE IF Contains(out, {"binding"}) THEN "Data type binding issue - timestamp conversion needed"
    ELSE IF Contains(out, {"config_sig"}) THEN "Snowflake configuration incomplete"
    ELSE "Snowflake loading failed - see execution output"

\* ------------------------------------------------------------ the stages
\* Values of the record's keys:
\*   file_info         "csv" (a dict whose s3_url ends in .csv), "other" (a dict
\*                     with another s3_url), "no_url" (a dict whose s3_url is
\*                     None), or None
\*   user_requirements "plain", or "triple_quote" (text that closes the
\*                     docstring the template embeds it in)
\*   profiling_data    None, "ok" (success true) or "failed" (no success)
\*   generated_script  [origin, parses, repaired, warning_header]
\*   script_path       <<workflow_id, "etl_script">>
\*   execution_output  a sequence of markers
\*   workflow_id       the second the run was initialized in
\*   timestamp         the clock tick the run was initialized at

Script(origin, parses) ==
    [origin |-> origin, parses |-> parses, repaired |-> FALSE, warning_header |-> FALSE]

\* strftime('%Y%m%d_%H%M%S') of the instant: the instant cut to whole seconds
FormatSecond(now) == now \div TicksPerSecond

\* f"etl_{...}"
WorkflowId(now) == FormatSecond(now)

ScriptPath(workflow_id) == <<workflow_id, "etl_script">>

DebugPath(workflow_id) == <<workflow_id, "debug_original">>

LogPath(workflow_id) == <<workflow_id, "workflow_log">>

initialize_workflow(st, now) ==
    [workflow_id |-> WorkflowId(now),
     timestamp |-> now,
     status |-> "initialized",
     execution_success |-> FALSE,
     snowflake_table_created |-> FALSE,
     snowflake_records_inserted |-> 0] @@ st

\* every file is profiled, whatever its name ends with
ProfilerCalledForAnyFile(st) ==
    ~Truthy(st, "profiling_data") /\ st.file_info \in {"csv", "other"}

\* profile_data_node calls profile_data_from_s3
ProfilerCalled(st) == ~Truthy(st, "profiling_data") /\ st.file_info = "csv"

\* profiler: what profile_data_from_s3 returns, "ok" or "failed"
profile_data_node(st, profiler) ==
    IF Truthy(st, "profiling_data") THEN
        Put(st, "status", "profiled")
    ELSE IF st.file_info = None THEN
        \* file_info.get raises; the handler leaves status alone
        Put(st, "profiling_data", None)
    ELSE IF ProfilerCalled(st) THEN
        Put(Put(st, "profiling_data", profiler), "status", "profiled")
    ELSE
        Put(Put(st, "profiling_data", None), "status", "profiled")

\* _generate_template_script raises when file_info is None or its s3_url is
TemplateRaises(st) == st.file_info \in {None, "no_url"}

\* the template embeds the requirements in a docstring
TemplateScript(st) == Script("template", st.user_requirements = "plain")

\* a status of Generate's own
GenerateFailedStatusOwn == "generation_failed"

GenerateFailedStatus == "failed"

\* llm: "valid" (text that compiles after cleaning and injection), "invalid"
\* (text that does not), "raise" (the generator call raised)
generate_script_node(st, llm) ==
    IF llm = "valid" THEN
        Put(Put(st, "generated_script", Script("llm", TRUE)), "status", "script_generated")
    ELSE IF TemplateRaises(st) THEN
        Put(Put(st, "execution_error", "Script generation failed"),
            "status", GenerateFailedStatus)
    ELSE
        Put(Put(st, "generated_script", TemplateScript(st)), "status", "script_generated")

SaveFailedStatus == "failed"

\* the except handler of save_script_node
SaveFailed(st) ==
    Put(Put(st, "execution_error", "Script saving failed"), "status", SaveFailedStatus)

\* the script that does not compile is saved as it is
SaveCheckedUnmarked(st, env) ==
    IF st.generated_script.parses \/ ~env.fixed
    THEN IF st.generated_script.parses THEN st
         ELSE Put(st, "execution_error", "Syntax validation failed")
    ELSE Put(st, "generated_script",
             [st.generated_script EXCEPT !.parses = TRUE, !.repaired = TRUE])

\* the record once the syntax check and the repair attempt are done
\* env.fixed: _fix_script_syntax yields text that compiles
SaveChecked(st, env) ==
    LET script == st.generated_script
    IN  IF script.parses THEN st
        ELSE IF env.fixed THEN
            Put(st, "generated_script", [script EXCEPT !.parses = TRUE, !.repaired = TRUE])
        ELSE
            Put(Put(st, "generated_script", [script EXCEPT !.warning_header = TRUE]),
                "execution_error", "Syntax validation failed")

\* env.write_ok: nothing but the SyntaxError of compile is raised up to and
\*     including the write and the chmod of the script file
\* env.debug_ok: the debug file is written
save_script_node(st, env) ==
    IF "generated_script" \notin DOMAIN st THEN SaveFailed(st)
    ELSE LET checked == SaveChecked(st, env)
             saved == Put(Put(checked, "script_path", ScriptPath(st.workflow_id)),
                          "status", "script_saved")
         IN  IF ~env.write_ok THEN SaveFailed(checked)
             ELSE IF Truthy(saved, "execution_error") /\ ~env.debug_ok THEN SaveFailed(saved)
             ELSE saved

\* the files save_script_node writes: path :> text
SaveWrites(st, env) ==
    IF "generated_script" \notin DOMAIN st \/ ~env.write_ok THEN <<>>
    ELSE LET checked == SaveChecked(st, env)
             script == (ScriptPath(st.workflow_id) :> checked.generated_script)
         IN  IF Truthy(checked, "execution_error") /\ env.debug_ok
             THEN (DebugPath(st.workflow_id) :> checked.generated_script) @@ script
             ELSE script

ExecuteSkips(st) == "script_path" \notin DOMAIN st

\* the skip leaves the status of Save in place
ExecuteSkippedSilently(st) == Put(st, "execution_success", FALSE)

\* the record execute_script_node returns when it skips the run
ExecuteSkipped(st) ==
    [execution_error |-> "No script path available - script saving may have failed",
     execution_success |-> FALSE,
     status |-> "execution_failed"] @@ st

\* every return code that is not negative counts as success
ExitedNotKilled(code) == code >= 0

\* result.returncode == 0
ExitedCleanly(code) == code = 0

\* result: what subprocess.run did: [kind |-> "exit", code, out],
\* [kind |-> "timeout"], [kind |-> "error"] (the launch raised) or
\* [kind |-> "environ_error"] (the launch raised on a None in env)
execute_script_node(st, result) ==
    IF ExecuteSkips(st) THEN ExecuteSkipped(st)
    ELSE IF result.kind = "exit" THEN
        LET ran == [execution_output |-> result.out,
                    execution_success |-> ExitedCleanly(result.code)] @@ st
        IN  IF ExitedCleanly(result.code) THEN Put(ran, "status", "executed")
            ELSE [execution_error |-> "Script execution failed with return code",
                  status |-> "execution_failed"] @@ ran
    ELSE IF result.kind = "timeout" THEN
        [execution_error |-> "Script execution timed out after 5 minutes",
         execution_success |-> FALSE,
         status |-> "execution_timeout"] @@ st
    ELSE
        [execution_error |-> "Script execution error",
         execution_success |-> FALSE,
         status |-> "execution_failed"] @@ st

\* validate_ingestion_node without its guard
ValidateNeverSkips(st) == FALSE

\* validate_ingestion_node returns the record untouched when this holds
ValidateSkips(st) == ~st.execution_success

\* the skip marks the script as saved but not run
ValidateSkippedResets(st) == Put(st, "status", "script_saved")

\* "Skipping validation due to execution failure"
ValidateSkipped(st) == st

\* the record with the verdict for (source, destination, processed) stored
WithVerdict(st, source_count, snowflake_count, processed_count) ==
    [record_validation |->
         _validate_record_counts(source_count, snowflake_count, processed_count),
     snowflake_actual_count |-> snowflake_count] @@ st

\* the failed load reports no inserted rows, whatever was processed
ValidateLoadFailedInsertsNone(st, source_count, out) ==
    [snowflake_table_created |-> TRUE,
     snowflake_records_inserted |-> 0,
     snowflake_error |-> LoadFailureError(out),
     status |-> "validated"] @@ WithVerdict(st, source_count, 0, RowsProcessed(out))

\* the "Failed to load data to Snowflake" branch
ValidateLoadFailed(st, source_count, out) ==
    LET rows == RowsProcessed(out)
        done == [snowflake_table_created |-> TRUE,
                 snowflake_records_inserted |-> 0,
                 snowflake_error |-> LoadFailureError(out),
                 status |-> "validated"] @@ WithVerdict(st, source_count, 0, rows)
    IN  IF rows > 0
        THEN [records_processed |-> rows, snowflake_records_inserted |-> rows] @@ done
        ELSE done

\* a verdict that failed fails the validation
ValidateInsertedByVerdict(st, source_count, inserted, out) ==
    LET verdicted == WithVerdict(st, source_count, inserted, RowsProcessed(out))
    IN  [snowflake_table_created |-> TRUE,
         snowflake_records_inserted |-> inserted,
         records_processed |-> RowsProcessed(out),
         status |-> IF verdicted.record_validation.status = "failed"
                    THEN "validation_failed" ELSE "validated"] @@ verdicted

\* the branches that take the inserted count from the output
ValidateInserted(st, source_count, inserted, out) ==
    [snowflake_table_created |-> TRUE,
     snowflake_records_inserted |-> inserted,
     records_processed |-> RowsProcessed(out),
     status |-> "validated"] @@ WithVerdict(st, source_count, inserted, RowsProcessed(out))

\* the branch taken when the Snowflake settings are incomplete
ValidateUnconfigured(st, source_count, out) ==
    LET rows == RowsProcessed(out)
    IN  IF rows > 0 THEN
            [snowflake_table_created |-> TRUE,
             snowflake_records_inserted |-> rows,
             records_processed |-> rows,
             status |-> "validated",
             snowflake_error |-> "Configuration incomplete but data processed successfully"]
                @@ WithVerdict(st, source_count, 0, rows)
        ELSE
            [snowflake_table_created |-> TRUE,
             snowflake_records_inserted |-> MockInserted,
             status |-> "validated"] @@ st

\* the except handler of validate_ingestion_node; signature: the message
\* contains "404 Not Found" or "your_account"
ValidateHandler(st, signature, source_count, rows) ==
    IF signature THEN
        [snowflake_table_created |-> TRUE,
         snowflake_records_inserted |-> 0,
         status |-> "validated",
         snowflake_error |-> "Configuration incomplete - using mock validation"]
            @@ WithVerdict(st, source_count, 0, rows)
    ELSE
        [snowflake_error |-> "Snowflake validation failed",
         status |-> "validation_failed"] @@ st

\* create_ok: the CREATE TABLE statement succeeds
_create_table_from_file_info(st, create_ok) ==
    IF create_ok THEN
        [snowflake_table_created |-> TRUE,
         snowflake_records_inserted |-> 0,
         status |-> "validated"] @@ st
    ELSE
        [snowflake_error |-> "Auto-creation failed",
         status |-> "validation_warning"] @@ st

\* the part of validate_ingestion_node that talks to Snowflake
\* env.connect: "ok", "config_error" (an exception with the configuration
\*     signature) or "error"; env.snowflake_count: what _count_snowflake_records
\*     returns; env.catalog: "tables", "empty", "config_error" or "error";
ValidateConnected(st, source_count, out, env) ==
    LET rows == RowsProcessed(out)
        counted == Put(st, "snowflake_actual_count", env.snowflake_count)
        verdict == _validate_record_counts(source_count, env.snowflake_count, rows)
    IN  IF env.connect # "ok" THEN
            ValidateHandler(st, env.connect = "config_error", source_count, rows)
        ELSE IF env.catalog \in {"config_error", "error"} THEN
            ValidateHandler(counted, env.catalog = "config_error", source_count, rows)
        ELSE IF env.catalog = "tables" THEN
            [snowflake_table_created |-> TRUE,
             snowflake_records_inserted |-> env.snowflake_count,
             record_validation |-> verdict,
             status |-> "validated"] @@ counted
        ELSE
            _create_table_from_file_info(Put(counted, "record_validation", verdict),
                                         env.create_ok)

\* env.import_ok: snowflake.connector can be imported
\* env.source_count: what _count_source_records returns
validate_ingestion_node(st, configured, env) ==
    IF ValidateSkips(st) THEN ValidateSkipped(st)
    ELSE IF ~env.import_ok THEN ValidateHandler(st, FALSE, 0, 0)
    ELSE
        LET counted == Put(st, "source_record_count", env.source_count)
            out == IF "execution_output" \in DOMAIN st THEN st.execution_output ELSE <<>>
        IN  IF Contains(out, {"load_failed"}) THEN
                ValidateLoadFailed(counted, env.source_count, out)
            ELSE IF LoadingSuccessful(out) /\ InsertedRows(out) > 0 THEN
                ValidateInserted(counted, env.source_count, InsertedRows(out), out)
            ELSE IF LoadingSuccessful(out) /\ LegacyMatches(out) # <<>> THEN
                ValidateInserted(counted, env.source_count, Last(LegacyMatches(out)), out)
            ELSE IF ~configured THEN
                ValidateUnconfigured(counted, env.source_count, out)
            ELSE
                ValidateConnected(counted, env.source_count, out, env)

\* _generate_workflow_summary calls file_info.get
SummaryRaises(st) == st.file_info = None

\* finalize_workflow raises when the summary or the log write does
FinalizeRaises(st, log_ok) == SummaryRaises(st) \/ ~log_ok

\* the log holds every key of the record
LogStateWithProfile(st) == st

\* the state as json.dump writes it: every key but profiling_data
LogState(st) == [k \in DOMAIN st \ {"profiling_data"} |-> st[k]]

\* the record is given a new workflow_id when it is finalized
FinalizeRestamps(st) ==
    Put(Put(st, "status", "completed"), "workflow_id", st.workflow_id + 1)

finalize_workflow(st) == Put(st, "status", "completed")

\* a run counts as a success only when its script ran cleanly
CompletedAndExecuted(final_state) ==
    final_state.status = "completed" /\ final_state.execution_success

\* "success": final_state["status"] == "completed"
Completed(final_state) == final_state.status = "completed"

\* what run_etl_workflow returns; invoke_raised: workflow.invoke raised.  The
\* summary is generated once more for the result.
run_etl_workflow(final_state, invoke_raised) ==
    IF invoke_raised \/ SummaryRaises(final_state) THEN
        [success |-> FALSE, error |-> "Workflow execution failed"]
    ELSE
        [success |-> Completed(final_state),
         workflow_id |-> final_state.workflow_id,
         script_path |-> Get(final_state, "script_path"),
         execution_success |-> final_state.execution_success,
         snowflake_success |-> final_state.snowflake_table_created,
         records_inserted |-> final_state.snowflake_records_inserted,
         record_validation |-> Get(final_state, "record_validation"),
         errors |-> [k \in {e \in {"execution_error", "snowflake_error"} :
                              Truthy(final_state, e)} |-> final_state[k]],
         timestamp |-> final_state.timestamp]

\* ------------------------------------------------------------------ state
VARIABLES
    rec,          \* rec[r]: the workflow record of run r
    pc,           \* pc[r]: the node run r executes next, or "END"
    raised,       \* raised[r]: a node of run r raised to workflow.invoke
    clock,        \* datetime.now(), in ticks
    files,        \* generated_scripts/: path :> [text, writers]
    settings,     \* the Snowflake settings of Config: "set" (all non-empty),
                  \* "empty" (strings, some empty) or "unset" (some None)
    results,      \* results[r]: what subprocess.run did in run r
    calls,        \* calls[r]: the collaborators run r has called
    active,       \* the runs that were started
    outputs,      \* what the subprocess may print: "none", "samples" or "all"
    statuses,     \* statuses[r]: the values rec[r].status has held, in order
    counts,       \* the (source, snowflake, processed) counts given to the verdict
    verdict,      \* <<>>, or <<v>> once the verdict v was computed
    arg,          \* the argument drawn for the function a specification applies
    ret           \* the values that function has returned so far, in order

vars == <<rec, pc, raised, clock, files, settings, results, calls, active, outputs, statuses, counts, verdict, arg, ret>>

workflowVars == <<rec, pc, raised, clock, files, settings, results, calls, active, outputs, statuses>>

\* the all([...]) of validate_ingestion_node over the Snowflake settings
configured == settings = "set"

\* os.getenv of a variable that is not set is None, and subprocess.run raises
\* TypeError on an env that holds None
EnvironRaises == settings = "unset"

Settings == {"set", "empty", "unset"}

FileInfos == {"csv", "other", "no_url", None}

Requirements == {"plain", "triple_quote"}

ProfilingInputs == {None, "ok", "failed"}

\* the graph without the node that runs the script
EdgesAroundExecute ==
    [initialize |-> "profile_data",
     profile_data |-> "generate_script",
     generate_script |-> "save_script",
     save_script |-> "validate_ingestion",
     execute_script |-> "validate_ingestion",
     validate_ingestion |-> "finalize",
     finalize |-> "END"]

\* the add_edge calls of create_workflow: node |-> the node that follows it
Edges ==
    [initialize |-> "profile_data",
     profile_data |-> "generate_script",
     generate_script |-> "save_script",
     save_script |-> "execute_script",
     execute_script |-> "validate_ingestion",
     validate_ingestion |-> "finalize",
     finalize |-> "END"]

\* workflow.add_edge(START, "initialize")
StartNode == "initialize"

\* no subprocess.run call was made
NoResult == [kind |-> "none", code |-> 1, out |-> <<>>]

\* initial_state of run_etl_workflow
InitialState(file_info, user_requirements, profiling_data) ==
    [file_info |-> file_info,
     user_requirements |-> user_requirements,
     profiling_data |-> profiling_data]

\* the record of a run that is never started
Idle == InitialState("csv", "plain", None)

InitWorkflow(runs, infos, reqs, profs, cfgs, printed) ==
    /\ rec \in {f \in [RunIds -> {Idle} \cup
                        {InitialState(i, q, p) : i \in infos, q \in reqs, p \in profs}] :
                  \A r \in RunIds :
                      IF r \in runs
                      THEN \E i \in infos, q \in reqs, p \in profs :
                               f[r] = InitialState(i, q, p)
                      ELSE f[r] = Idle}
    /\ pc = [r \in RunIds |-> StartNode]
    /\ raised = [r \in RunIds |-> FALSE]
    /\ clock = 0
    /\ files = <<>>
    /\ settings \in cfgs
    /\ results = [r \in RunIds |-> NoResult]
    /\ calls = [r \in RunIds |-> {}]
    /\ active = runs
    /\ outputs = printed
    /\ statuses = [r \in RunIds |-> <<>>]

\* one run, every input, the sample outputs
Init ==
    /\ InitWorkflow({1}, FileInfos, Requirements, ProfilingInputs, Settings, "samples")
    /\ counts = <<0, 0, 0>>
    /\ verdict = <<>>
    /\ arg = None
    /\ ret = <<>>

\* NumRuns runs side by side on plain inputs, Snowflake settings empty,
\* outputs without markers
InitConc ==
    /\ InitWorkflow(RunIds, {"csv"}, {"plain"}, {"ok"}, {"empty"}, "none")
    /\ counts = <<0, 0, 0>>
    /\ verdict = <<>>
    /\ arg = None
    /\ ret = <<>>

\* the counts of the testable properties, beyond the enumerated range
ExampleCounts == {70, 80, 90, 96, 100}

VerdictCounts == (0..MaxVerdictCount) \cup ExampleCounts

InitVerdict ==
    /\ InitWorkflow({}, {"csv"}, {"plain"}, {None}, {"set"}, "none")
    /\ counts \in VerdictCounts \X VerdictCounts \X VerdictCounts
    /\ verdict = <<>>
    /\ arg = None
    /\ ret = <<>>

\* ---------------------------------------------------------------- actions
\* the node of run r returned: the graph's edge leads on from `node`
Goto(r, node) ==
    /\ pc' = [pc EXCEPT ![r] = Edges[node]]
    /\ statuses' = [statuses EXCEPT ![r] =
           IF "status" \in DOMAIN rec'[r]
              /\ (@ = <<>> \/ @[Len(@)] # rec'[r].status)
           THEN Append(@, rec'[r].status)
           ELSE @]

Write(fs, r, writes) ==
    [p \in DOMAIN fs \cup DOMAIN writes |->
        IF p \in DOMAIN writes
        THEN [text |-> writes[p],
              writers |-> (IF p \in DOMAIN fs THEN fs[p].writers ELSE {}) \cup {r}]
        ELSE fs[p]]

\* time passes; only initialize_workflow reads the clock
Tick ==
    /\ clock < MaxClock
    /\ \E r \in active : pc[r] = "initialize"
    /\ clock' = clock + 1
    /\ UNCHANGED <<rec, pc, raised, files, settings, results, calls, active, outputs, statuses, counts, verdict, arg, ret>>

Initialize(r) ==
    /\ pc[r] = "initialize"
    /\ rec' = [rec EXCEPT ![r] = initialize_workflow(@, clock)]
    /\ Goto(r, "initialize")
    /\ UNCHANGED <<raised, clock, files, settings, results, calls, active, outputs, counts, verdict, arg, ret>>

Profile(r) ==
    /\ pc[r] = "profile_data"
    /\ \E profiler \in {"ok", "failed"} :
           rec' = [rec EXCEPT ![r] = profile_data_node(@, profiler)]
    /\ calls' = [calls EXCEPT ![r] =
           IF ProfilerCalled(rec[r]) THEN @ \cup {"profiler"} ELSE @]
    /\ Goto(r, "profile_data")
    /\ UNCHANGED <<raised, clock, files, settings, results, active, outputs, counts, verdict, arg, ret>>

\* the generator call raises on a file_info that is None
LlmOutcomes(st) ==
    IF st.file_info = None THEN {"raise"} ELSE {"valid", "invalid", "raise"}

Generate(r) ==
    /\ pc[r] = "generate_script"
    /\ \E llm \in LlmOutcomes(rec[r]) :
           rec' = [rec EXCEPT ![r] = generate_script_node(@, llm)]
    /\ Goto(r, "generate_script")
    /\ UNCHANGED <<raised, clock, files, settings, results, calls, active, outputs, counts, verdict, arg, ret>>

SaveEnvs == [fixed : BOOLEAN, write_ok : BOOLEAN, debug_ok : BOOLEAN]

Save(r) ==
    /\ pc[r] = "save_script"
    /\ \E env \in SaveEnvs :
           /\ rec' = [rec EXCEPT ![r] = save_script_node(@, env)]
           /\ files' = Write(files, r, SaveWrites(rec[r], env))
    /\ Goto(r, "save_script")
    /\ UNCHANGED <<raised, clock, settings, results, calls, active, outputs, counts, verdict, arg, ret>>

\* what subprocess.run can do with the file at the script path: a script that
\* does not compile exits non-zero; out of a timeout is what TimeoutExpired
\* carries, the output captured until the child was killed
RunResults(script, printed) ==
    LET captured == CASE printed = "all" -> Outputs
                      [] printed = "samples" -> SampleOutputs
                      [] OTHER -> {<<>>}
    IN  {[kind |-> "exit", code |-> c, out |-> o] :
            c \in (IF script.parses THEN {0, 1} ELSE {1}), o \in captured}
        \cup {[kind |-> "timeout", code |-> 1, out |-> o] : o \in captured}
        \cup {[kind |-> "error", code |-> 1, out |-> <<>>]}

\* subprocess.run raised TypeError while it encoded env
EnvironError == [kind |-> "environ_error", code |-> 1, out |-> <<>>]

Execute(r) ==
    /\ pc[r] = "execute_script"
    /\ \E result \in (IF ExecuteSkips(rec[r]) THEN {NoResult}
                      ELSE IF EnvironRaises THEN {EnvironError}
                      ELSE RunResults(files[rec[r].script_path].text, outputs)) :
           /\ rec' = [rec EXCEPT ![r] = execute_script_node(@, result)]
           /\ results' = [results EXCEPT ![r] = result]
    /\ Goto(r, "execute_script")
    /\ UNCHANGED <<raised, clock, files, settings, calls, active, outputs, counts, verdict, arg, ret>>

\* _count_source_records returns 0 when the s3_url is None
SourceCounts(st) == IF st.file_info = "no_url" THEN {0} ELSE 0..MaxCount

ValidateEnvs(st) ==
    [import_ok : BOOLEAN,
     source_count : SourceCounts(st),
     connect : {"ok", "config_error", "error"},
     snowflake_count : 0..MaxCount,
     catalog : {"tables", "empty", "config_error", "error"},
     create_ok : BOOLEAN]

Validate(r) ==
    /\ pc[r] = "validate_ingestion"
    /\ \E env \in ValidateEnvs(rec[r]) :
           rec' = [rec EXCEPT ![r] = validate_ingestion_node(@, configured, env)]
    /\ Goto(r, "validate_ingestion")
    /\ UNCHANGED <<raised, clock, files, settings, results, calls, active, outputs, counts, verdict, arg, ret>>

Finalize(r) ==
    /\ pc[r] = "finalize"
    /\ \E log_ok \in BOOLEAN :
           IF FinalizeRaises(rec[r], log_ok)
           THEN /\ raised' = [raised EXCEPT ![r] = TRUE]
                /\ UNCHANGED <<rec, files>>
           ELSE /\ files' = Write(files, r, LogPath(rec[r].workflow_id) :> LogState(rec[r]))
                /\ rec' = [rec EXCEPT ![r] = finalize_workflow(@)]
                /\ UNCHANGED raised
    /\ Goto(r, "finalize")
    /\ UNCHANGED <<clock, settings, results, calls, active, outputs, counts, verdict, arg, ret>>

\* the verdict on the counts drawn
Reconcile ==
    /\ verdict = <<>>
    /\ active = {}
    /\ verdict' = <<_validate_record_counts(counts[1], counts[2], counts[3])>>
    /\ UNCHANGED <<workflowVars, counts, arg, ret>>

NextWorkflow ==
    \/ Tick
    \/ \E r \in active : Initialize(r)
    \/ \E r \in active : Profile(r)
    \/ \E r \in active : Generate(r)
    \/ \E r \in active : Save(r)
    \/ \E r \in active : Execute(r)
    \/ \E r \in active : Validate(r)
    \/ \E r \in active : Finalize(r)

Spec == Init /\ [][NextWorkflow]_vars

SpecConc == InitConc /\ [][NextWorkflow]_vars

\* one run on plain inputs, every output of at most MaxOut markers
InitOut ==
    /\ InitWorkflow({1}, {"csv"}, {"plain"}, {"ok"}, {"set", "empty"}, "all")
    /\ counts = <<0, 0, 0>>
    /\ verdict = <<>>
    /\ arg = None
    /\ ret = <<>>

SpecOut == InitOut /\ [][NextWorkflow]_vars

SpecVerdict == InitVerdict /\ [][Reconcile]_vars

\* ------------------------------------------------- functions on their own
\* no run is started; a function is applied to the argument drawn
InitFunction(args) ==
    /\ InitWorkflow({}, {"csv"}, {"plain"}, {None}, {"set"}, "none")
    /\ counts = <<0, 0, 0>>
    /\ verdict = <<>>
    /\ arg \in args
    /\ ret = <<>>

\* the function returned `value`
Return(value) ==
    /\ ret' = Append(ret, value)
    /\ UNCHANGED <<workflowVars, counts, verdict, arg>>

\* ------------------------------------------------------ profile_data_from_s3
\* the except handler of profile_data_from_s3
ProfilingFailed == [success |-> FALSE, error |-> "Data profiling failed"]

\* the return of profile_data_from_s3 when _load_csv_from_s3 gave None
LoadFailed == [error |-> "Failed to load data from S3"]

\* s3_url: None, "no_scheme" (no s3:// prefix), "no_key" (s3://bucket with no
\*     slash after it) or "s3" (s3://bucket/key)
\* load_ok: _load_csv_from_s3 returns a frame
\* raises: the step after the load that raises, or "none"
profile_data_from_s3(s3_url, load_ok, raises) ==
    IF s3_url \in {None, "no_scheme", "no_key"} THEN ProfilingFailed
    ELSE IF ~load_ok THEN LoadFailed
    ELSE IF raises # "none" THEN ProfilingFailed
    ELSE [success |-> TRUE, dataset_info |-> "frame"]

Locators == {None, "no_scheme", "no_key", "s3"}

\* the calls of profile_data_from_s3 after the load, and its return
ProfilingSteps ==
    {"_find_primary_key_candidates", "_find_date_columns", "_analyze_data_quality",
     "_generate_schema_recommendations", "_generate_llm_data_insights",
     "dataset_info", "sample_data", "_sanitize_for_json"}

ProfilerArgs ==
    [s3_url : Locators, bucket_name : {None, "bucket"}, load_ok : BOOLEAN,
     raises : ProfilingSteps \cup {"none"}]

InitProfiler == InitFunction(ProfilerArgs)

ProfileFromS3 ==
    /\ ret = <<>>
    /\ active = {}
    /\ arg \in ProfilerArgs
    /\ Return(profile_data_from_s3(arg.s3_url, arg.load_ok, arg.raises))

SpecProfiler == InitProfiler /\ [][ProfileFromS3]_vars

\* --------------------------------------------- _find_primary_key_candidates
\* a frame: [rows |-> len(df), columns |-> the columns in df.columns order];
\* a column here: [unique |-> nunique(dropna=True), nulls |-> isnull().sum()]

\* unique_count == n and null_count == 0
PerfectKey(n, col) == col.unique = n /\ col.nulls = 0

\* the bounds themselves are left out
MostlyUniqueStrictly(n, col) ==
    100 * col.unique > KeyUniquePercent * n /\ 100 * col.nulls < KeyNullPercent * n

\* unique_count >= n * 0.95 and null_count <= n * 0.05
MostlyUnique(n, col) ==
    100 * col.unique >= KeyUniquePercent * n /\ 100 * col.nulls <= KeyNullPercent * n

\* the candidates of the columns from the i-th on
RECURSIVE KeyCandidatesFrom(_, _)
KeyCandidatesFrom(df, i) ==
    IF i > Len(df.columns) THEN <<>>
    ELSE LET col == df.columns[i]
             rest == KeyCandidatesFrom(df, i + 1)
         IN  IF PerfectKey(df.rows, col)
             THEN <<[column |-> i, confidence |-> "high"]>> \o rest
             ELSE IF MostlyUnique(df.rows, col)
             THEN <<[column |-> i, confidence |-> "medium"]>> \o rest
             ELSE rest

_find_primary_key_candidates(df) == KeyCandidatesFrom(df, 1)

\* the counts within Slack of 0 or of n
Near(n) == {x \in 0..n : x <= Slack \/ x >= n - Slack}

\* the columns a frame of n rows can have: the distinct values and the nulls
\* fit in n rows, and a column with a value that is not null has a distinct one
KeyColumns(n) ==
    {col \in [unique : Near(n), nulls : Near(n)] :
        /\ col.unique + col.nulls <= n
        /\ col.unique = 0 => col.nulls = n}

\* row counts on which 95% and 5% are whole numbers, and one on which not
ThresholdRows == {20, 21, 40}

KeyFrames ==
    UNION {[rows : {n}, columns : SeqsUpTo(KeyColumns(n), MaxCols)] :
              n \in (0..MaxRows) \cup ThresholdRows}

InitKeys == InitFunction(KeyFrames)

FindPrimaryKeyCandidates ==
    /\ ret = <<>>
    /\ active = {}
    /\ arg \in KeyFrames
    /\ Return(_find_primary_key_candidates(arg))

SpecKeys == InitKeys /\ [][FindPrimaryKeyCandidates]_vars

\* -------------------------------------------------------- _find_date_columns
\* a column here: [dtype |-> "datetime", "numeric" or "object",
\*                 unique |-> nunique(dropna=True),
\*                 hint |-> the lowered name contains date, time, created, ...,
\*                 valid |-> the values pd.to_datetime parses,
\*                 dates |-> the distinct dates among them,
\*                 raises |-> pd.to_datetime raises]

\* a datetime column is also judged by its name
DatetimeCandidateOrHint(col, i) ==
    IF col.unique > 1 THEN <<[column |-> i, confidence |-> "high"]>>
    ELSE IF col.hint THEN <<[column |-> i, confidence |-> "medium"]>>
    ELSE <<>>

\* is_datetime64_any_dtype(df[col]): listed on more than one value, then continue
DatetimeCandidate(col, i) ==
    IF col.unique > 1 THEN <<[column |-> i, confidence |-> "high"]>> ELSE <<>>

\* the check of the name adds its entry whatever the parsing added
ParsedCandidateThenHint(n, col, i) ==
    (IF col.raises THEN <<>>
     ELSE IF 100 * col.valid >= DateHighPercent * n /\ col.dates > 1
     THEN <<[column |-> i, confidence |-> "high"]>>
     ELSE IF 100 * col.valid >= DateMediumPercent * n
     THEN <<[column |-> i, confidence |-> "medium"]>>
     ELSE <<>>)
        \o (IF col.hint THEN <<[column |-> i, confidence |-> "medium"]>> ELSE <<>>)

\* the try block that parses the column, then the check of its name
ParsedCandidate(n, col, i) ==
    LET parsed ==
            IF col.raises THEN <<>>
            ELSE IF 100 * col.valid >= DateHighPercent * n /\ col.dates > 1
            THEN <<[column |-> i, confidence |-> "high"]>>
            ELSE IF 100 * col.valid >= DateMediumPercent * n
            THEN <<[column |-> i, confidence |-> "medium"]>>
            ELSE <<>>
    IN  IF parsed = <<>> /\ col.hint
        THEN <<[column |-> i, confidence |-> "medium"]>>
        ELSE parsed

RECURSIVE DateCandidatesFrom(_, _)
DateCandidatesFrom(df, i) ==
    IF i > Len(df.columns) THEN <<>>
    ELSE LET col == df.columns[i]
             rest == DateCandidatesFrom(df, i + 1)
         IN  IF col.dtype = "datetime" THEN DatetimeCandidate(col, i) \o rest
             ELSE IF col.dtype = "numeric" THEN rest
             ELSE ParsedCandidate(df.rows, col, i) \o rest

_find_date_columns(df) == DateCandidatesFrom(df, 1)

Min(a, b) == IF a <= b THEN a ELSE b

\* the columns a frame of n rows can have; at most MaxDistinct distinct values
\* are told apart
DateColumns(n) ==
    {col \in [dtype : {"datetime", "numeric", "object"},
              unique : 0..Min(n, MaxDistinct),
              hint : BOOLEAN,
              valid : 0..n,
              dates : 0..Min(n, MaxDistinct),
              raises : BOOLEAN] :
        /\ col.dtype = "datetime" => (col.valid = 0 /\ col.dates = 0 /\ ~col.raises)
        /\ col.dtype = "numeric"
               => (col.unique = 0 /\ col.valid = 0 /\ col.dates = 0 /\ ~col.raises)
        /\ col.dtype = "object"
               => /\ col.unique = 0
                  /\ col.dates <= col.valid
                  /\ col.valid > 0 => col.dates > 0
                  /\ col.raises => col.valid = 0}

DateFrames ==
    UNION {[rows : {n}, columns : SeqsUpTo(DateColumns(n), MaxCols)] :
              n \in 0..MaxDateRows}

InitDates == InitFunction(DateFrames)

FindDateColumns ==
    /\ ret = <<>>
    /\ active = {}
    /\ arg \in DateFrames
    /\ Return(_find_date_columns(arg))

SpecDates == InitDates /\ [][FindDateColumns]_vars

\* ------------------------------------------------- _inject_snowflake_config
\* a script is the sequence of its lines; a line is the kind of its text:
\*   "blank"           nothing but white space
\*   "comment"         # ...
\*   "import"          import os
\*   "docstring"       a line that starts with three quotes and opens or
\*                     closes a string of several lines
\*   "prose"           a line of text inside such a string
\*   "snowflake_open"  SNOWFLAKE_CONFIG = {
\*   "aws_open"        AWS_CONFIG = {
\*   "entry"           'account': os.getenv('SNOWFLAKE_ACCOUNT', '...'),
\*   "close"           }
\*   "def_validate"    def validate_snowflake_config():
\*   "body_assign"     missing = [k for k, v in ...]
\*   "body_if"         if missing:
\*   "body_print"      print(...)
\*   "body_return"     return False
\*   "valid_assign"    CONFIG_VALID = validate_snowflake_config()
\*   "if_valid"        if CONFIG_VALID:
\*   "else"            else:
\*   "def"             def main():
\*   "stmt"            main()
\*   "assign"          x = 1

\* stripped.startswith('AWS_CONFIG') or ... or 'validate_config' in stripped
StartsConfig(line) == line \in {"snowflake_open", "aws_open", "valid_assign"}

\* line.count('{') - line.count('}')
Braces(line) ==
    CASE line \in {"snowflake_open", "aws_open"} -> 1
      [] line = "close" -> 0 - 1
      [] OTHER -> 0

\* a new statement: def, class, if, import, from, or an assignment
NewStatement(line) ==
    line \in {"def_validate", "def", "body_if", "if_valid", "import",
              "assign", "body_assign"}

\* the lines that the search for the injection point passes over
Preamble(line) == line \in {"blank", "comment", "import", "docstring"}

\* the loop of _remove_conflicting_config from line i on
RECURSIVE RemoveFrom(_, _, _, _)
RemoveFrom(lines, i, skip_block, brace_count) ==
    IF i > Len(lines) THEN <<>>
    ELSE LET line == lines[i]
             count == brace_count + Braces(line)
         IN  IF StartsConfig(line) THEN RemoveFrom(lines, i + 1, TRUE, 0)
             ELSE IF skip_block THEN
                 IF count <= 0 /\ line \notin {"blank", "comment"} /\ NewStatement(line)
                 THEN <<line>> \o RemoveFrom(lines, i + 1, FALSE, count)
                 ELSE RemoveFrom(lines, i + 1, TRUE, count)
             ELSE <<line>> \o RemoveFrom(lines, i + 1, FALSE, brace_count)

_remove_conflicting_config(script) == RemoveFrom(script, 1, FALSE, 0)

\* config_injection, line by line, up to its last line break
ConfigInjection ==
    <<"comment", "comment", "comment", "import", "blank",
      "comment", "snowflake_open", "entry", "entry", "entry", "entry", "entry",
      "entry", "close", "blank",
      "comment", "aws_open", "entry", "entry", "entry", "close", "blank",
      "comment", "def_validate", "body_assign", "body_assign", "blank",
      "body_if", "body_print", "body_if", "body_print", "blank",
      "body_if", "body_print", "body_return", "body_return", "blank",
      "comment", "valid_assign", "blank",
      "comment", "if_valid", "body_print", "else", "body_print", "blank",
      "comment", "comment", "comment", "blank">>

\* the index of the first line that is not preamble, 0 when there is none
InjectionPoint(lines) ==
    IF \E i \in 1..Len(lines) : ~Preamble(lines[i])
    THEN (CHOOSE i \in 1..Len(lines) :
              ~Preamble(lines[i]) /\ \A j \in 1..(i - 1) : Preamble(lines[j])) - 1
    ELSE 0

\* '\n'.join(lines).rstrip(): the lines without the blank ones at the end
RECURSIVE Rstrip(_)
Rstrip(lines) ==
    IF lines # <<>> /\ lines[Len(lines)] = "blank"
    THEN Rstrip(SubSeq(lines, 1, Len(lines) - 1))
    ELSE lines

_inject_snowflake_config(script) ==
    LET lines == _remove_conflicting_config(script)
        point == InjectionPoint(lines)
        before_injection == Rstrip(SubSeq(lines, 1, point))
        after_injection == SubSeq(lines, point + 1, Len(lines))
    IN  (IF before_injection = <<>> THEN <<"blank", "blank">>
         ELSE before_injection \o <<"blank">>)
            \o ConfigInjection \o after_injection

\* the lines of the scripts the injection is applied to
ScriptLines ==
    {"blank", "comment", "import", "docstring", "prose", "def", "stmt", "assign",
     "snowflake_open", "entry", "close"}

Scripts == SeqsUpTo(ScriptLines, MaxLines)

InitInject == InitFunction(Scripts)

\* the script goes through the injection
Inject ==
    /\ ret = <<>>
    /\ active = {}
    /\ arg \in Scripts
    /\ Return(_inject_snowflake_config(arg))

\* the injected script goes through the injection again
Reinject ==
    /\ Len(ret) = 1
    /\ active = {}
    /\ arg \in Scripts
    /\ Return(_inject_snowflake_config(ret[1]))

SpecInject == InitInject /\ [][Inject \/ Reinject]_vars

\* ----------------------------------------------------------- _fix_script_syntax
\* a line of a script under repair is its kind and its indentation in steps
\* of four spaces:
\*   "try"     try:
\*   "except"  except Exception as e:      (or finally:)
\*   "except_bare"  except Exception as e   (an except without its colon)
\*   "stmt"    any statement that opens no block
\*   "blank"   nothing but white space
ScriptLine(kind, indent) == [kind |-> kind, indent |-> indent]

\* the lines that end with ':' and start with a block keyword
BlockHeader(line) == line.kind \in {"try", "except"}

\* next_line.strip() and next_indent > current_indent
NextLineIndented(lines, i) ==
    /\ i + 1 <= Len(lines)
    /\ lines[i + 1].kind # "blank"
    /\ lines[i + 1].indent > lines[i].indent

\* first pass: a block header that no indented line follows gets a pass
\* an except that lacks its colon gets it, and a pass on the same terms
RECURSIVE FirstPass(_, _)
FirstPass(lines, i) ==
    IF i > Len(lines) THEN <<>>
    ELSE (IF lines[i].kind = "except_bare"
          THEN <<ScriptLine("except", lines[i].indent)>>
          ELSE <<lines[i]>>)
            \o (IF (BlockHeader(lines[i]) \/ lines[i].kind = "except_bare")
                   /\ ~NextLineIndented(lines, i)
                THEN <<ScriptLine("stmt", lines[i].indent + 1)>>
                ELSE <<>>)
            \o FirstPass(lines, i + 1)

\* check_indent: a blank line counts as a line of the try body
CheckIndent(line, try_indent) ==
    IF line.kind = "blank" THEN try_indent + 1 ELSE line.indent

\* the line at j is an except or finally at the indentation of the try
SameLevelHandler(line, try_indent) ==
    CheckIndent(line, try_indent) = try_indent /\ line.kind = "except"

\* the line at j ends the search: a handler of the try, or other code at the
\* indentation of the try or less
EndsTryBlock(line, try_indent) ==
    \/ SameLevelHandler(line, try_indent)
    \/ CheckIndent(line, try_indent) <= try_indent /\ line.kind # "blank"

\* j when the inner loop stops: the first line after i that ends the search,
\* the length of the script plus one when none does
TryBlockEnd(lines, i) ==
    LET ends == {j \in (i + 1)..Len(lines) : EndsTryBlock(lines[j], lines[i].indent)}
    IN  IF ends = {} THEN Len(lines) + 1
        ELSE CHOOSE j \in ends : \A k \in ends : j <= k

\* the three lines of the generic handler
GenericHandler(try_indent) ==
    <<ScriptLine("except", try_indent),
      ScriptLine("stmt", try_indent + 1),
      ScriptLine("stmt", try_indent + 1)>>

\* second pass: a try is copied with its body, and with the generic handler
\* when the search found none; the loop goes on at the line that ended the
\* search
RECURSIVE SecondPass(_, _)
SecondPass(lines, i) ==
    IF i > Len(lines) THEN <<>>
    ELSE IF lines[i].kind = "try" THEN
        LET j == TryBlockEnd(lines, i)
            has_handler == j <= Len(lines) /\ SameLevelHandler(lines[j], lines[i].indent)
        IN  <<lines[i]>>
                \o SubSeq(lines, i + 1, j - 1)
                \o (IF has_handler THEN <<>> ELSE GenericHandler(lines[i].indent))
                \o SecondPass(lines, j)
    ELSE <<lines[i]>> \o SecondPass(lines, i + 1)

\* the repair leaves the blank lines out
RepairDropsBlankLines(script) ==
    SelectSeq(SecondPass(FirstPass(script, 1), 1), LAMBDA line : line.kind # "blank")

_fix_script_syntax(script) == SecondPass(FirstPass(script, 1), 1)

\* the lines of the scripts given to the repair
RepairLines ==
    {ScriptLine(kind, indent) :
        kind \in {"try", "except", "except_bare", "stmt"}, indent \in 0..MaxIndent}
        \cup {ScriptLine("blank", 0)}

RepairScripts == SeqsUpTo(RepairLines, MaxRepairLines)

InitRepair == InitFunction(RepairScripts)

FixScriptSyntax ==
    /\ ret = <<>>
    /\ active = {}
    /\ arg \in RepairScripts
    /\ Return(_fix_script_syntax(arg))

SpecRepair == InitRepair /\ [][FixScriptSyntax]_vars

\* ------------------------------------------- the counts read from the output
\* the outputs the analysis of validate_ingestion_node is applied to
AnalysedOutputs == SeqsUpTo(Markers, MaxMarkers)

InitAnalyse == InitFunction(AnalysedOutputs)

\* the counts validate_ingestion_node reads from execution_output
AnalyseOutput ==
    /\ ret = <<>>
    /\ active = {}
    /\ arg \in AnalysedOutputs
    /\ Return([rows_processed |-> RowsProcessed(arg),
               inserted_rows |-> InsertedRows(arg)])

SpecAnalyse == InitAnalyse /\ [][AnalyseOutput]_vars

\* ------------------------------------------------------ _clean_script_response
\* a response is the sequence of its lines; a line is the kind of its text:
\*   "blank"     nothing but white space
\*   "phrase"    prose with one of the phrases of an explanation ("here is",
\*               "this script", ...) and no '=', 'def ', 'class ', 'import '
\*               or 'from '
\*   "prose"     other prose, without '=' and not ending in ':'
\*   "markdown"  **bold**
\*   "heading"   ## ...: a markdown header, and a comment to Python
\*   "comment"   # ...
\*   "import"    import os
\*   "def"       def f():
\*   "assign"    x = 1
\*   "block"     if ready:
\*   "stmt"      main()
\* No line holds an unbalanced quote or bracket, so _fix_common_script_issues
\* leaves every line as it is; no response holds a code fence, so the text the
\* cleaning works on is the response.
ResponseLines ==
    {"blank", "phrase", "prose", "markdown", "heading", "comment", "import",
     "def", "assign", "block", "stmt"}

\* the test that starts an explanation
Explanatory(line) == line = "phrase"

\* stripped.startswith('**') or stripped.startswith('##')
MarkdownLine(line) == line \in {"markdown", "heading"}

\* the test that ends an explanation
StartsCode(line, in_explanation) ==
    \/ line \in {"comment", "import", "def"}
    \/ line \in {"assign", "block"} /\ ~in_explanation

\* the loop of _clean_script_response from line i on; started: cleaned_lines
\* is not empty
RECURSIVE CleanFrom(_, _, _, _)
CleanFrom(lines, i, started, in_explanation) ==
    IF i > Len(lines) THEN <<>>
    ELSE LET line == lines[i]
             explaining == IF StartsCode(line, in_explanation) THEN FALSE
                           ELSE in_explanation
         IN  IF ~started /\ line = "blank" THEN
                 CleanFrom(lines, i + 1, started, in_explanation)
             ELSE IF Explanatory(line) THEN CleanFrom(lines, i + 1, started, TRUE)
             ELSE IF MarkdownLine(line) THEN
                 CleanFrom(lines, i + 1, started, in_explanation)
             ELSE IF explaining THEN CleanFrom(lines, i + 1, started, TRUE)
             ELSE <<line>> \o CleanFrom(lines, i + 1, TRUE, FALSE)

\* the blank lines at the start are dropped
RECURSIVE Lstrip(_)
Lstrip(lines) ==
    IF lines # <<>> /\ lines[1] = "blank" THEN Lstrip(Tail(lines)) ELSE lines

\* str.strip() of the joined lines
Strip(lines) == Lstrip(Rstrip(lines))

\* any(indicator in script for indicator in ['import ', 'def ', 'class ', '='])
LooksLikePython(lines) ==
    \E i \in 1..Len(lines) : lines[i] \in {"import", "def", "assign"}

_clean_script_response(script_response) ==
    LET script == Strip(CleanFrom(script_response, 1, FALSE, FALSE))
    IN  IF LooksLikePython(script) THEN script ELSE Strip(script_response)

Responses == SeqsUpTo(ResponseLines, MaxResponseLines)

InitClean == InitFunction(Responses)

CleanScriptResponse ==
    /\ ret = <<>>
    /\ active = {}
    /\ arg \in Responses
    /\ Return(_clean_script_response(arg))

SpecClean == InitClean /\ [][CleanScriptResponse]_vars

\* -------------------------------------------------------- _count_source_records
\* what reading the source file does: "rows" (it is read and has `rows`
\* records), "missing" (no local file at the path), "storage_error"
\* (get_object raises) or "parse_error" (read_csv raises)
SourceReads ==
    [kind : {"rows"}, rows : 0..MaxCount]
        \cup [kind : {"missing", "storage_error", "parse_error"}, rows : {0}]

\* file_info.get raises on None and s3_url.startswith on an s3_url of None;
\* every exception ends in a handler that returns 0
_count_source_records(st, read) ==
    IF st.file_info \in {None, "no_url"} THEN 0
    ELSE IF read.kind = "rows" THEN read.rows
    ELSE 0

\* the arguments of a count and of the verdict computed with it
CountArgs ==
    [file_info : FileInfos, read : SourceReads,
     snowflake_count : 0..MaxCount, processed_count : 0..MaxCount]

InitCount == InitFunction(CountArgs)

CountSourceRecords ==
    /\ ret = <<>>
    /\ active = {}
    /\ arg \in CountArgs
    /\ Return(_count_source_records(arg, arg.read))

\* validate_ingestion_node computes the verdict with the count returned
VerdictOnCount ==
    /\ Len(ret) = 1
    /\ active = {}
    /\ arg \in CountArgs
    /\ Return(_validate_record_counts(ret[1], arg.snowflake_count, arg.processed_count))

SpecCount == InitCount /\ [][CountSourceRecords \/ VerdictOnCount]_vars

\* ------------------------------------------------------------------ claims
Range(q) == {q[i] : i \in 1..Len(q)}

AfterExecute(r) == pc[r] \in {"validate_ingestion", "finalize", "END"}

AfterValidate(r) == pc[r] \in {"finalize", "END"}

StatusOrder ==
    <<{"initialized"}, {"profiled"}, {"script_generated"}, {"script_saved"},
      {"executed", "execution_failed", "execution_timeout"},
      {"validated", "validation_failed"}, {"completed"}>>

Ordered(s) == \E i \in 1..Len(StatusOrder) : s \in StatusOrder[i]

Rank(s) == CHOOSE i \in 1..Len(StatusOrder) : s \in StatusOrder[i]

\* C1: of any two values the status of a run has held that are in the order
\* initialized < profiled < script_generated < script_saved < {executed,
\* execution_failed, execution_timeout} < {validated, validation_failed} <
\* completed, the later one is not before the earlier one in that order; so
\* after executed, execution_failed or execution_timeout the status is never
\* script_generated or anything earlier.
C1_StatusNeverMovesBackward ==
    \A r \in active :
        \A i, j \in 1..Len(statuses[r]) :
            (i < j /\ Ordered(statuses[r][i]) /\ Ordered(statuses[r][j]))
                => Rank(statuses[r][i]) <= Rank(statuses[r][j])

\* a finished run that went through the statuses failed and execution_failed
C1_Witness ==
    \E r \in active :
        /\ pc[r] = "END"
        /\ {"failed", "execution_failed", "completed"} \subseteq Range(statuses[r])

\* C2: whatever failed in Profile, Generate, Save, Execute and Validate, the
\* run ends with status completed.
C2_RunEndsCompleted ==
    \A r \in active : pc[r] = "END" => rec[r].status = "completed"

\* C3: no stage function raises an exception to the orchestrator, a failure
\* to write the workflow log in Finalize included.
C3_NoStageRaises ==
    \A r \in active : ~raised[r]

TenStatuses ==
    {"initialized", "profiled", "script_generated", "script_saved", "executed",
     "execution_failed", "execution_timeout", "validated", "validation_failed",
     "completed"}

\* C4 as claimed: once set, status is one of the ten values of the state
\* machine.
C4_StatusInTen ==
    \A r \in active : "status" \in DOMAIN rec[r] => rec[r].status \in TenStatuses

\* C4 as amended: once set, status is one of the ten values, or failed
\* (written by Generate and Save when they catch an exception), or
\* validation_warning (written when the automatic table creation fails).
C4_StatusInTwelve ==
    \A r \in active :
        "status" \in DOMAIN rec[r]
            => rec[r].status \in TenStatuses \cup {"failed", "validation_warning"}

\* Validate left the status validation_warning
C4_Witness ==
    \E r \in active : AfterValidate(r) /\ rec[r].status = "validation_warning"

\* C5: two runs get distinct workflow identifiers, and no file is written by
\* more than one run.
C5_DistinctRunsDistinctFiles ==
    /\ \A r1, r2 \in active :
           (r1 # r2 /\ "workflow_id" \in DOMAIN rec[r1] /\ "workflow_id" \in DOMAIN rec[r2])
               => rec[r1].workflow_id # rec[r2].workflow_id
    /\ \A p \in DOMAIN files : Cardinality(files[p].writers) <= 1

\* the ordered decision table, with the variance as an exact fraction:
\* v <= 5% is 20 * |s - d| <= s, v <= 15% is 20 * |s - d| <= 3 * s
DecisionTable(s, d, p) ==
    CASE s = 0 -> "warning"
      [] s # 0 /\ d = 0 -> "failed"
      [] s # 0 /\ d # 0 /\ s = d -> "success"
      [] s # 0 /\ d # 0 /\ s # d /\ p > 0 /\ p = d -> "success"
      [] OTHER -> IF 20 * Abs(s - d) <= s THEN "success"
                  ELSE IF 20 * Abs(s - d) <= 3 * s THEN "warning"
                  ELSE "failed"

\* C6: the verdict's status is the one the ordered decision table gives for
\* (source, destination, processed), and the six listed triples get the
\* listed statuses.
C6_VerdictFollowsDecisionTable ==
    verdict # <<>> =>
        /\ verdict[1].status = DecisionTable(counts[1], counts[2], counts[3])
        /\ counts = <<100, 100, 100>> => verdict[1].status = "success"
        /\ counts = <<100, 0, 80>> => verdict[1].status = "failed"
        /\ counts = <<100, 96, 96>> => verdict[1].status = "success"
        /\ counts = <<100, 90, 0>> => verdict[1].status = "warning"
        /\ counts = <<100, 70, 0>> => verdict[1].status = "failed"
        /\ counts = <<0, 5, 5>> => verdict[1].status = "warning"

\* the verdict of a triple on the 5% threshold: 20 source rows, 19 in the
\* destination, none processed
C6_Witness ==
    verdict # <<>> /\ counts = <<20, 19, 0>> /\ verdict[1].status = "success"

\* C7: every verdict has a status among success, warning and failed, and
\* carries the three counts it was computed from.
C7_VerdictEchoesCounts ==
    verdict # <<>> =>
        /\ verdict[1].status \in {"success", "warning", "failed"}
        /\ verdict[1].source_count = counts[1]
        /\ verdict[1].snowflake_count = counts[2]
        /\ verdict[1].processed_count = counts[3]

\* a verdict on three different counts
C7_Witness ==
    verdict # <<>> /\ counts = <<100, 70, 80>>

\* C8: once Execute left execution_success false, the record has
\* snowflake_table_created false and snowflake_records_inserted zero, up to
\* and including the final record.
C8_NoDestinationSuccessAfterFailedExecution ==
    \A r \in active :
        (AfterExecute(r) /\ ~rec[r].execution_success)
            => /\ rec[r].snowflake_table_created = FALSE
               /\ rec[r].snowflake_records_inserted = 0

\* a finished run whose script was launched and exited non-zero
C8_Witness ==
    \E r \in active :
        /\ pc[r] = "END"
        /\ rec[r].status = "completed"
        /\ ~rec[r].execution_success
        /\ "execution_output" \in DOMAIN rec[r]

\* the output has a marker of a successful insertion
InsertionMarker(out) ==
    Contains(out, {"tick_inserted", "inserted", "etl_completed", "summary",
                   "success_rate", "successful_rows"})

\* C9: after Validate, snowflake_table_created is true only with evidence: an
\* insertion-success marker in the execution output, or a destination that
\* could be queried (the settings are complete), which is the only case where
\* the catalog can return a table or Validate can create one.
C9_TableCreatedOnlyWithEvidence ==
    \A r \in active :
        (AfterValidate(r) /\ rec[r].snowflake_table_created)
            => \/ configured
               \/ /\ "execution_output" \in DOMAIN rec[r]
                  /\ InsertionMarker(rec[r].execution_output)

\* some warning on the record: an error text, or a verdict that is not success
Warned(st) ==
    \/ "snowflake_error" \in DOMAIN st
    \/ "record_validation" \in DOMAIN st /\ st.record_validation.status # "success"

\* C10: in the final record of a completed run that reports a processed
\* count, snowflake_records_inserted is not greater than it unless the record
\* carries a warning.
C10_InsertedWithinProcessed ==
    \A r \in active :
        (pc[r] = "END" /\ rec[r].status = "completed"
                      /\ "records_processed" \in DOMAIN rec[r])
            => \/ rec[r].snowflake_records_inserted <= rec[r].records_processed
               \/ Warned(rec[r])

TimeoutMessage == "Script execution timed out after 5 minutes"

\* C11: when the record has no script_path as Execute starts, Execute makes no
\* subprocess.run call and returns with status execution_failed,
\* execution_success false and execution_error set.
C11_ExecuteWithoutScriptPathShortCircuits ==
    [][\A r \in active :
          (pc[r] = "execute_script" /\ pc'[r] # pc[r] /\ "script_path" \notin DOMAIN rec[r])
              => /\ results'[r].kind = "none"
                 /\ rec'[r].status = "execution_failed"
                 /\ rec'[r].execution_success = FALSE
                 /\ Truthy(rec'[r], "execution_error")]_vars

C11_Witness ==
    \E r \in active :
        /\ pc[r] = "validate_ingestion"
        /\ "script_path" \notin DOMAIN rec[r]
        /\ rec[r].status = "execution_failed"
        /\ results[r].kind = "none"

\* C12: when Execute has called subprocess.run, the record it returns holds
\* exactly the outcome: exit code 0 gives status executed and execution_success
\* true; another exit code gives execution_failed, execution_success false and
\* the captured output in execution_output; a timeout gives execution_timeout
\* with the timeout message; any other exception gives execution_failed with
\* another message; execution_success is true exactly on exit code 0.
C12_ExecuteRecordsOutcome ==
    \A r \in active :
        (pc[r] = "validate_ingestion" /\ results[r].kind # "none")
            => LET res == results[r]
                   st == rec[r]
               IN  /\ (res.kind = "exit" /\ res.code = 0)
                          => st.status = "executed" /\ st.execution_success
                   /\ (res.kind = "exit" /\ res.code # 0)
                          => /\ st.status = "execution_failed"
                             /\ ~st.execution_success
                             /\ Get(st, "execution_output") = res.out
                   /\ res.kind = "timeout"
                          => /\ st.status = "execution_timeout"
                             /\ Get(st, "execution_error") = TimeoutMessage
                   /\ res.kind \in {"error", "environ_error"}
                          => /\ st.status = "execution_failed"
                             /\ Truthy(st, "execution_error")
                             /\ st.execution_error # TimeoutMessage
                   /\ st.execution_success <=> (res.kind = "exit" /\ res.code = 0)

C12_Witness ==
    \E r \in active :
        /\ pc[r] = "validate_ingestion"
        /\ results[r].kind = "exit"
        /\ results[r].code # 0
        /\ results[r].out # <<>>
        /\ rec[r].status = "execution_failed"

\* C13: with the Snowflake settings unset, an Execute that has a script path
\* still runs the script as a subprocess: the launch does not fail on the
\* missing settings.
C13_LaunchSurvivesUnsetSettings ==
    \A r \in active :
        (pc[r] = "validate_ingestion" /\ settings = "unset"
                                     /\ "script_path" \in DOMAIN rec[r])
            => results[r].kind \in {"exit", "timeout", "error"}

\* C14: when execution did not succeed, the record after Validate still holds
\* a source record count and a record_validation verdict.
C14_ReconciliationAfterFailedExecution ==
    \A r \in active :
        (AfterValidate(r) /\ ~rec[r].execution_success)
            => /\ "source_record_count" \in DOMAIN rec[r]
               /\ "record_validation" \in DOMAIN rec[r]

\* C15: whatever the text generation did and whatever the file descriptor and
\* the requirements are, Generate returns with generated_script set and status
\* script_generated.
C15_GenerateAlwaysYieldsScript ==
    \A r \in active :
        pc[r] = "save_script"
            => /\ "generated_script" \in DOMAIN rec[r]
               /\ rec[r].status = "script_generated"

\* C16: the text _generate_template_script returns compiles, whatever the
\* requirements, the source locator and the filename are.
C16_TemplateScriptParses ==
    \A r \in active :
        (pc[r] = "save_script" /\ "generated_script" \in DOMAIN rec[r]
                               /\ rec[r].generated_script.origin = "template")
            => rec[r].generated_script.parses

StageOrder ==
    <<"initialize", "profile_data", "generate_script", "save_script",
      "execute_script", "validate_ingestion", "finalize", "END">>

\* C18: a run starts at Initialize, and every stage that returns hands over to
\* the next stage of the order Initialize, Profile, Generate, Save, Execute,
\* Validate, Finalize, whatever the record holds: each stage runs once, none is
\* skipped or repeated.
C18_StagesRunOnceInOrder ==
    /\ \A r \in active : pc[r] = StageOrder[1]
    /\ [][\A r \in active :
             pc'[r] # pc[r]
                 => \E i \in 1..(Len(StageOrder) - 1) :
                        pc[r] = StageOrder[i] /\ pc'[r] = StageOrder[i + 1]]_vars

C18_Witness ==
    \E r \in active :
        /\ pc[r] = "END"
        /\ "failed" \in Range(statuses[r])
        /\ "execution_failed" \in Range(statuses[r])

\* C19: the workflow log of a run that returned its record agrees with that
\* record on every field but profiling_data, the status included.
C19_LogAgreesWithReturnedRecord ==
    \A r \in active :
        (pc[r] = "END" /\ ~raised[r])
            => /\ LogPath(rec[r].workflow_id) \in DOMAIN files
               /\ files[LogPath(rec[r].workflow_id)].text = LogState(rec[r])

ProfilingFails(a) ==
    a.s3_url # "s3" \/ ~a.load_ok \/ a.raises # "none"

\* C21: whenever something fails inside profile_data_from_s3 (the locator is
\* invalid, the file cannot be loaded, an analysis step raises), the record it
\* returns has success = false and an error message.
C21_ProfilerFailureIsFlagged ==
    (ret # <<>> /\ arg \in ProfilerArgs /\ ProfilingFails(arg))
        => /\ "success" \in DOMAIN ret[1]
           /\ ret[1].success = FALSE
           /\ "error" \in DOMAIN ret[1]

\* the confidences column i is listed with, one per listing
Listings(candidates, i) ==
    SelectSeq(candidates, LAMBDA c : c.column = i)

\* C22: _find_primary_key_candidates lists a column at high confidence exactly
\* when it has as many distinct values as the frame has rows and no null, at
\* medium confidence exactly when that fails and the distinct values are at
\* least 95% and the nulls at most 5% of the rows, and not otherwise; no column
\* is listed twice and the candidates keep the column order.
C22_KeyCandidatesFollowThresholds ==
    (ret # <<>> /\ arg \in KeyFrames)
        => LET n == arg.rows
               candidates == ret[1]
           IN  /\ \A i \in 1..Len(arg.columns) :
                      LET d == arg.columns[i].unique
                          k == arg.columns[i].nulls
                          high == d = n /\ k = 0
                          medium == ~high /\ 100 * d >= 95 * n /\ 100 * k <= 5 * n
                          listed == Listings(candidates, i)
                      IN  /\ Len(listed) <= 1
                          /\ high <=> (listed # <<>> /\ listed[1].confidence = "high")
                          /\ medium <=> (listed # <<>> /\ listed[1].confidence = "medium")
               /\ \A j \in 1..Len(candidates) : candidates[j].column \in 1..Len(arg.columns)
               /\ \A j \in 1..(Len(candidates) - 1) :
                      candidates[j].column < candidates[j + 1].column

\* a frame of 20 rows whose first column misses one distinct value and is
\* listed at medium confidence after a second column that is a perfect key
C22_Witness ==
    /\ ret # <<>>
    /\ arg \in KeyFrames
    /\ arg.rows = 20
    /\ Len(arg.columns) = 2
    /\ arg.columns[1] = [unique |-> 19, nulls |-> 1]
    /\ ret[1] = <<[column |-> 1, confidence |-> "medium"],
                  [column |-> 2, confidence |-> "high"]>>

\* C23: a column of a datetime dtype is among the temporal candidates, once
\* and at high confidence, when it has more than one distinct value, and is
\* not among them when it has at most one, whatever its name.
C23_DatetimeColumnsByDistinctValues ==
    (ret # <<>> /\ arg \in DateFrames)
        => \A i \in 1..Len(arg.columns) :
               arg.columns[i].dtype = "datetime"
                   => LET listed == Listings(ret[1], i)
                      IN  IF arg.columns[i].unique > 1
                          THEN Len(listed) = 1 /\ listed[1].confidence = "high"
                          ELSE listed = <<>>

\* a datetime column named like a date with a single value is left out, and
\* the datetime column after it, with two values, is listed
C23_Witness ==
    /\ ret # <<>>
    /\ arg \in DateFrames
    /\ Len(arg.columns) = 2
    /\ arg.columns[1].dtype = "datetime" /\ arg.columns[1].unique = 1 /\ arg.columns[1].hint
    /\ arg.columns[2].dtype = "datetime" /\ arg.columns[2].unique = 2
    /\ ret[1] = <<[column |-> 2, confidence |-> "high"]>>

\* the lines of `lines` that are of kind `kind`
Count(lines, kind) == Len(SelectSeq(lines, LAMBDA line : line = kind))

\* C24: a script that went through the injection twice holds one
\* configuration block: one SNOWFLAKE_CONFIG, one AWS_CONFIG, one validation
\* function and one CONFIG_VALID assignment, and nothing left of the block of
\* the first injection.
C24_InjectionTwiceLeavesOneBlock ==
    (Len(ret) = 2 /\ arg \in Scripts)
        => /\ Count(ret[2], "snowflake_open") = 1
           /\ Count(ret[2], "aws_open") = 1
           /\ Count(ret[2], "def_validate") = 1
           /\ Count(ret[2], "valid_assign") = 1
           /\ Count(ret[2], "if_valid") = 1

\* the try at line i of `lines` has an except or finally of its own: the first
\* line of code after it at its indentation or less is a handler at its
\* indentation
HasHandler(lines, i) ==
    LET j == TryBlockEnd(lines, i)
    IN  j <= Len(lines) /\ SameLevelHandler(lines[j], lines[i].indent)

\* the lines of `lines` that are a try without a handler
BareTries(lines) ==
    {i \in 1..Len(lines) : lines[i].kind = "try" /\ ~HasHandler(lines, i)}

\* C25: after the repair every try of the script has a handler at its
\* indentation, a try nested in the body of another try and a try that runs to
\* the end of the script included, and one handler was added for each try that
\* had none.
C25_EveryTryGetsOneHandler ==
    (Len(ret) = 1 /\ arg \in RepairScripts)
        => /\ BareTries(ret[1]) = {}
           /\ Count(ret[1], ScriptLine("except", 0))
                + Count(ret[1], ScriptLine("except", 1))
                + Count(ret[1], ScriptLine("except", 2))
                + Count(ret[1], ScriptLine("except", 3))
              = Count(arg, ScriptLine("except", 0))
                + Count(arg, ScriptLine("except", 1))
                + Count(arg, ScriptLine("except", 2))
                + Count(arg, ScriptLine("except", 3))
                + Cardinality(BareTries(arg))

\* one of the error fields of the record holds a message
ErrorWritten(st) == Truthy(st, "execution_error") \/ Truthy(st, "snowflake_error")

\* the step that run r takes runs an except handler of its stage: Profile on a
\* file_info that is None, Generate when it falls back to the template or
\* fails, Save when it fails, Execute when the launch raised or timed out,
\* Validate when it fails
CaughtException(r) ==
    \/ pc[r] = "profile_data" /\ ~Truthy(rec[r], "profiling_data")
           /\ rec[r].file_info = None
    \/ pc[r] = "generate_script"
           /\ \/ rec'[r].status = GenerateFailedStatus
              \/ /\ "generated_script" \in DOMAIN rec'[r]
                 /\ rec'[r].generated_script.origin = "template"
    \/ pc[r] = "save_script" /\ rec'[r].status = SaveFailedStatus
    \/ pc[r] = "execute_script"
           /\ results'[r].kind \in {"timeout", "error", "environ_error"}
    \/ pc[r] = "validate_ingestion" /\ rec'[r].status = "validation_failed"

\* C26: a stage that catches an internal exception returns a record with a
\* message in execution_error or snowflake_error; Profile, Generate, Save,
\* Execute and Validate alike.
C26_CaughtExceptionIsRecorded ==
    [][\A r \in RunIds : CaughtException(r) => ErrorWritten(rec'[r])]_vars

\* the last match of the markers of `kinds` in `out`, 0 when there is none
LastMatch(out, kinds) ==
    IF FindAll(out, kinds) = <<>> THEN 0 ELSE Last(FindAll(out, kinds))

\* C27: each count read from the output is the last match of its marker:
\* the processed rows are the last "Successfully loaded" count or the last
\* "rows remaining" count, whichever is larger, and the inserted rows are the
\* last "Successfully inserted" count or, without one and under an insertion
\* summary, the last "Successful rows" count.
C27_CountsAreLastMatches ==
    (Len(ret) = 1 /\ arg \in AnalysedOutputs)
        => /\ ret[1].rows_processed
                = Max(LastMatch(arg, {"loaded"}), LastMatch(arg, {"remaining"}))
           /\ ret[1].inserted_rows
                = IF FindAll(arg, {"tick_inserted"}) # <<>>
                  THEN LastMatch(arg, {"tick_inserted"})
                  ELSE IF Contains(arg, {"summary"})
                       THEN LastMatch(arg, {"successful_rows"})
                       ELSE 0

\* the destination is reachable in env: the settings are complete, the
\* connector is there, and the connection and its queries succeed
Reachable(env) ==
    /\ configured
    /\ env.import_ok
    /\ env.connect = "ok"
    /\ env.catalog \in {"tables", "empty"}

\* C28: when execution succeeded and the destination is reachable, the
\* destination count of the verdict and snowflake_actual_count are the count
\* that the query of the destination returns, whatever the output says.
C28_ReachableDestinationIsQueried ==
    [][\A r \in RunIds : \A env \in ValidateEnvs(rec[r]) :
           (/\ pc[r] = "validate_ingestion"
            /\ rec[r].execution_success
            /\ Reachable(env)
            /\ rec'[r] = validate_ingestion_node(rec[r], configured, env))
               => /\ rec'[r].snowflake_actual_count = env.snowflake_count
                  /\ rec'[r].record_validation.snowflake_count = env.snowflake_count]_vars

\* the output reports a load with a count of inserted rows
LoadReported(out) ==
    LoadingSuccessful(out) /\ (InsertedRows(out) > 0 \/ LegacyMatches(out) # <<>>)

\* the analysis of the output found the load not done: the output says that
\* the load failed, or it reports no load and the settings are incomplete
LoadNotDone(out) ==
    \/ Contains(out, {"load_failed"})
    \/ ~configured /\ ~LoadReported(out)

\* run r has left Validate, which analysed the output of a successful
\* execution, found P > 0 processed rows and the load not done
ProcessedButNotLoaded(r) ==
    /\ pc[r] = "finalize"
    /\ rec[r].execution_success
    /\ "source_record_count" \in DOMAIN rec[r]
    /\ RowsProcessed(rec[r].execution_output) > 0
    /\ LoadNotDone(rec[r].execution_output)

C29_WitnessSettings ==
    \E r \in active :
        /\ ProcessedButNotLoaded(r)
        /\ ~Contains(rec[r].execution_output, {"load_failed"})
        /\ rec[r].snowflake_records_inserted > 0

\* C30: workflow_id and timestamp are written by Initialize alone: every step
\* of Profile, Generate, Save, Execute, Validate and Finalize leaves both as
\* they were.
C30_IdentityWrittenOnlyByInitialize ==
    [][\A r \in RunIds :
           pc[r] # "initialize"
               => /\ Get(rec'[r], "workflow_id") = Get(rec[r], "workflow_id")
                  /\ Get(rec'[r], "timestamp") = Get(rec[r], "timestamp")]_vars

\* a run went through all the stages and still carries the workflow_id and
\* the timestamp of the tick it was initialized at
C30_Witness ==
    \E r \in active :
        /\ pc[r] = "END"
        /\ rec[r].status = "completed"
        /\ rec[r].timestamp > 0
        /\ rec[r].workflow_id = WorkflowId(rec[r].timestamp)

\* C31: once Profile has returned, no step of Generate, Save, Execute,
\* Validate or Finalize changes the profiling_data of the record, and a
\* Finalize that writes the log leaves profiling_data out of the log and in
\* the record.
C31_ProfilingDataIsReadOnlyAfterProfile ==
    [][\A r \in RunIds :
           /\ pc[r] \notin {"initialize", "profile_data"}
                  => /\ "profiling_data" \in DOMAIN rec'[r]
                     /\ rec'[r].profiling_data = rec[r].profiling_data
           /\ (pc[r] = "finalize" /\ pc'[r] = "END" /\ ~raised'[r])
                  => /\ LogPath(rec[r].workflow_id) \in DOMAIN files'
                     /\ "profiling_data"
                            \notin DOMAIN files'[LogPath(rec[r].workflow_id)].text
                     /\ "workflow_id"
                            \in DOMAIN files'[LogPath(rec[r].workflow_id)].text]_vars

\* a finished run whose record holds the profile and whose log does not
C31_Witness ==
    \E r \in active :
        /\ pc[r] = "END"
        /\ ~raised[r]
        /\ rec[r].profiling_data = "ok"
        /\ "profiling_data" \notin DOMAIN files[LogPath(rec[r].workflow_id)].text

\* the line of `lines` where the injected block starts: SNOWFLAKE_CONFIG is
\* the seventh line of the block, and the block holds the only one
BlockStart(lines) ==
    (CHOOSE i \in 1..Len(lines) : lines[i] = "snowflake_open") - 6

\* line i of `lines` stands inside a string of several lines
InString(lines, i) ==
    /\ lines[i] # "docstring"
    /\ Count(SubSeq(lines, 1, i - 1), "docstring") % 2 = 1

\* line i of `lines` is code: not blank, not a comment, not an import, and
\* no part of a string of several lines
CodeLine(lines, i) ==
    /\ ~InString(lines, i)
    /\ lines[i] \notin {"blank", "comment", "import", "docstring"}

\* C32: the injected block stands after the import section of the script and
\* outside every string of several lines: no string is open where the block
\* starts, and every import after the block follows a line of code; a script
\* of comments and imports alone included.
C32_BlockFollowsImportSection ==
    (Len(ret) = 1 /\ arg \in Scripts)
        => LET out == ret[1]
               start == BlockStart(out)
               end == start + Len(ConfigInjection) - 1
           IN  /\ SubSeq(out, start, end) = ConfigInjection
               /\ Count(SubSeq(out, 1, start - 1), "docstring") % 2 = 0
               /\ \A i \in (end + 1)..Len(out) :
                      (out[i] = "import" /\ ~InString(out, i))
                          => \E j \in (end + 1)..(i - 1) : CodeLine(out, j)

\* the lines the cleaning is to keep: imports, definitions, assignments and
\* comments
Preserved(line) == line \in {"import", "def", "assign", "comment", "heading"}

\* C33: the cleaned text holds every import, definition, assignment and
\* comment of the response, in order, a line that follows dropped prose
\* included.
C33_CleaningKeepsCodeLines ==
    (Len(ret) = 1 /\ arg \in Responses)
        => SelectSeq(ret[1], Preserved) = SelectSeq(arg, Preserved)

\* C34: when Save has saved the script, the debug file exists if and only if
\* the saved script still does not parse, and the debug file holds the
\* generated text as it was before Save changed it: without the warning
\* header.
C34_DebugFileHoldsPreRepairText ==
    \A r \in active :
        (pc[r] = "execute_script" /\ rec[r].status = "script_saved")
            => LET script == files[ScriptPath(rec[r].workflow_id)].text
                   debug == DebugPath(rec[r].workflow_id)
               IN  /\ debug \in DOMAIN files <=> ~script.parses
                   /\ debug \in DOMAIN files
                          => /\ ~files[debug].text.warning_header
                             /\ ~files[debug].text.repaired

\* C35 as stated: some dataset makes _find_date_columns return two entries
\* for one column, one for its values and one for its name.
C35_SomeColumnListedTwice ==
    (ret # <<>> /\ arg \in DateFrames)
        => \E df \in DateFrames : \E i \in 1..Len(df.columns) :
               Len(Listings(_find_date_columns(df), i)) >= 2

\* C35: no dataset makes _find_date_columns return two entries for one
\* column: a column whose values and whose name both qualify is listed once,
\* with the entry of its values.
C35_NoColumnListedTwice ==
    (ret # <<>> /\ arg \in DateFrames)
        => \A i \in 1..Len(arg.columns) : Len(Listings(ret[1], i)) <= 1

\* a text column named like a date whose values all parse as dates
C35_Witness ==
    /\ ret # <<>>
    /\ arg \in DateFrames
    /\ arg.rows = 2
    /\ Len(arg.columns) = 1
    /\ arg.columns[1].dtype = "object" /\ arg.columns[1].hint
    /\ arg.columns[1].valid = 2 /\ arg.columns[1].dates = 2
    /\ ret[1] = <<[column |-> 1, confidence |-> "high"]>>

\* C36: when the subprocess ran into the timeout, the record after Execute has
\* status execution_timeout, execution_success false, a message in
\* execution_error, and the output captured until the timeout in
\* execution_output.
C36_TimeoutKeepsCapturedOutput ==
    \A r \in active :
        (pc[r] = "validate_ingestion" /\ results[r].kind = "timeout")
            => /\ rec[r].status = "execution_timeout"
               /\ ~rec[r].execution_success
               /\ Truthy(rec[r], "execution_error")
               /\ "execution_output" \in DOMAIN rec[r]
               /\ rec[r].execution_output = results[r].out

\* the source file of the arguments cannot be read
Unreadable(a) ==
    a.file_info \in {None, "no_url"} \/ a.read.kind # "rows"

\* C37: when the source file cannot be read, _count_source_records returns 0,
\* and the verdict computed with that count has status warning whatever the
\* destination and processed counts are.
C37_UnreadableSourceGivesWarning ==
    (ret # <<>> /\ arg \in CountArgs /\ Unreadable(arg))
        => /\ ret[1] = 0
           /\ Len(ret) = 2 => ret[2].status = "warning"

\* the storage raised, the destination is empty and rows were processed
C37_Witness ==
    /\ Len(ret) = 2
    /\ arg \in CountArgs
    /\ arg.file_info = "csv"
    /\ arg.read.kind = "storage_error"
    /\ arg.snowflake_count = 0
    /\ arg.processed_count > 0
    /\ ret[2].status = "warning"

\* C38: run_etl_workflow returns success = true for every run in which
\* Finalize returned, whatever execution_success, the verdict and the recorded
\* errors are, and success = false only for a run in which a stage raised.
C38_SuccessMeansFinalizeReturned ==
    \A r \in active :
        pc[r] = "END"
            => run_etl_workflow(rec[r], raised[r]).success = ~raised[r]

\* a run whose script was never saved, reported as a success with its error
C38_Witness ==
    \E r \in active :
        /\ pc[r] = "END"
        /\ ~raised[r]
        /\ "script_path" \notin DOMAIN rec[r]
        /\ ~rec[r].execution_success
        /\ run_etl_workflow(rec[r], raised[r]).success
        /\ "execution_error" \in DOMAIN run_etl_workflow(rec[r], raised[r]).errors

\* run r has left Validate with a verdict in its record
VerdictStored(r) == pc[r] = "finalize" /\ "record_validation" \in DOMAIN rec[r]

\* validation_failed is the status of a caught exception without a
\* configuration signature, and of nothing else
FailedOnlyOnException(r) ==
    (pc[r] = "finalize" /\ rec[r].status = "validation_failed")
        => /\ rec[r].snowflake_error = "Snowflake validation failed"
           /\ "record_validation" \notin DOMAIN rec[r]

\* C39 as stated: every path of Validate that computes a record_validation
\* ends with status validated.
C39_VerdictPathsEndValidated ==
    \A r \in active :
        /\ VerdictStored(r) => rec[r].status = "validated"
        /\ FailedOnlyOnException(r)

\* C39: the status after Validate does not depend on the verdict: a path that
\* computes a record_validation ends with status validated, whatever the
\* verdict, or with validation_warning when no recent table was found and the
\* automatic creation of one failed; validation_failed is set only for a
\* caught exception without a configuration signature.
C39_StatusIndependentOfVerdict ==
    \A r \in active :
        /\ VerdictStored(r)
               => \/ rec[r].status = "validated"
                  \/ /\ rec[r].status = "validation_warning"
                     /\ rec[r].snowflake_error = "Auto-creation failed"
        /\ FailedOnlyOnException(r)

\* a verdict that failed, in a record with status validated
C39_Witness ==
    \E r \in active :
        /\ VerdictStored(r)
        /\ rec[r].record_validation.status = "failed"
        /\ rec[r].status = "validated"

\* the line as the repair is to leave it: an except without its colon gets
\* the colon
WithColon(line) ==
    IF line.kind = "except_bare" THEN ScriptLine("except", line.indent) ELSE line

\* a line the repair may add: a pass, or a line of the generic handler
Addable(line) == line.kind \in {"stmt", "except"}

\* `output` is `input` with addable lines inserted: every line of the input
\* is there, in order, and every other line is addable
RECURSIVE OnlyInserted(_, _)
OnlyInserted(input, output) ==
    IF output = <<>> THEN input = <<>>
    ELSE \/ /\ input # <<>>
            /\ Head(output) = WithColon(Head(input))
            /\ OnlyInserted(Tail(input), Tail(output))
         \/ /\ Addable(Head(output))
            /\ OnlyInserted(input, Tail(output))

====
